---- MODULE Spec2Model ----
(***************************************************************************)
(* H2OHL water-quality dashboard (src/quali.py, src/BACKUPgrenzwert.py).   *)
(*                                                                         *)
(* Conventions of the model                                                *)
(*  - A text is a sequence of one-character strings; a code point outside  *)
(*    ASCII is written by name ("sqrt", "sect", "not", "inf").             *)
(*  - A float is an integer number of hundredths (13.1 is 1310), so the    *)
(*    tolerance 0.05 is 5.                                                 *)
(*  - An optional value is a set: {} is missing (None / NaN / NaT) and     *)
(*    {x} is the value x.                                                  *)
(***************************************************************************)
EXTENDS Integers, Sequences, FiniteSets, TLC

VARIABLES
    call,   \* a function call under study: [fn, ...arguments], or NoCall
    ret,    \* what that call returned, Pending before it ran
    pc,     \* position of the call ("call", "return") or of the page script
    \* the remote files of one page run
    csvFile,        \* <number>_Messwerte.csv
    limitFile,      \* Grenzwerte.csv
    \* what the page run did
    fetches,        \* the remote reads so far, each [table, ok]
    messages,       \* the st.error / st.info / st.warning boxes so far
    \* what the user did on the page, Missing until the widget ran
    map_data,       \* the popup st_folium returned
    time_option,    \* the entry picked in the time-range dropdown
    \* the script's variables, Missing until assigned
    number,
    measurements,
    start_ts,
    end_ts,
    filtered,
    measurement_choice,
    measurement_choice_display,
    limit,
    status_line,    \* the "Neuester Messwert ... | Status ..." line
    Status,         \* filtered["Status"], the tooltip column
    Bemerkung_display,  \* filtered["Bemerkung_display"], Missing if not made
    chart,          \* st.altair_chart was called
    downloads,      \* the download buttons offered
    csv_data_filtered   \* the rows of the time-filtered CSV download

remote == <<csvFile, limitFile>>

selections == <<map_data, time_option>>

locals ==
    <<number, measurements, start_ts, end_ts, filtered, measurement_choice,
      measurement_choice_display, limit>>

outputs ==
    <<fetches, messages, status_line, Status, Bemerkung_display, chart,
      downloads, csv_data_filtered>>

page == <<remote, selections, locals, outputs>>

vars == <<call, ret, pc, page>>

----------------------------------------------------------------------------
(* Optional values *)

Missing == {}

Some(x) == {x}

isna(x) == x = Missing

Val(x) == CHOOSE v \in x : TRUE

----------------------------------------------------------------------------
(* Texts *)

\* pat occurs in s starting at position i
MatchAt(s, pat, i) ==
    /\ i + Len(pat) - 1 <= Len(s)
    /\ \A k \in 1..Len(pat) : s[i + k - 1] = pat[k]

\* Python's  pat in s
Contains(pat, s) == \E i \in 1..(Len(s) + 1) : MatchAt(s, pat, i)

\* Python's  s.replace(pat, rep)  for a non-empty pat: leftmost,
\* non-overlapping occurrences
RECURSIVE str_replace(_, _, _)
str_replace(s, pat, rep) ==
    IF s = <<>> THEN <<>>
    ELSE IF MatchAt(s, pat, 1)
         THEN rep \o str_replace(SubSeq(s, Len(pat) + 1, Len(s)), pat, rep)
         ELSE <<Head(s)>> \o str_replace(Tail(s), pat, rep)

\* re.sub(r'_+', '_', s)
RECURSIVE re_sub_underscores(_)
re_sub_underscores(s) ==
    IF Len(s) <= 1 THEN s
    ELSE IF s[1] = "_" /\ s[2] = "_"
         THEN re_sub_underscores(Tail(s))
         ELSE <<Head(s)>> \o re_sub_underscores(Tail(s))

RECURSIVE lstrip(_, _)
lstrip(s, chars) ==
    IF s # <<>> /\ Head(s) \in chars THEN lstrip(Tail(s), chars) ELSE s

RECURSIVE rstrip(_, _)
rstrip(s, chars) ==
    IF s # <<>> /\ s[Len(s)] \in chars
    THEN rstrip(SubSeq(s, 1, Len(s) - 1), chars)
    ELSE s

\* Python's  s.strip(chars)
strip(s, chars) == rstrip(lstrip(s, chars), chars)

Whitespace == {" "}

\* the degree token as it is spelled in src/quali.py
DegreeToken == <<"not", "inf">>

----------------------------------------------------------------------------
(* Threshold classification *)

\* tolerance=0.05, in hundredths
Tolerance == 5

None == "None"

\* the oxygen-saturation token as it is spelled in src/quali.py
Sauerstoffsaettigung ==
    <<"S", "a", "u", "e", "r", "s", "t", "o", "f", "f", "s",
      "sqrt", "sect", "t", "t", "i", "g", "u", "n", "g">>

\* Python truthiness of an optional text: None and "" are falsy
Truthy(name) == ~isna(name) /\ Val(name) # <<>>

\* the oxygen branch with a missing tolerance margin
get_status_color_NoYellowInverted(value, grenzwert, tolerance, measurement_name) ==
    IF isna(value) \/ isna(grenzwert) THEN None
    ELSE IF Truthy(measurement_name)
            /\ Contains(Sauerstoffsaettigung, Val(measurement_name))
         THEN IF Val(value) > Val(grenzwert) THEN "green" ELSE "red"
         ELSE IF Val(value) < Val(grenzwert) - tolerance THEN "green"
              ELSE IF Val(value) < Val(grenzwert) THEN "yellow"
              ELSE "red"

\* the default branch with  <=  in place of  <
get_status_color_OffByOne(value, grenzwert, tolerance, measurement_name) ==
    IF isna(value) \/ isna(grenzwert) THEN None
    ELSE IF Truthy(measurement_name)
            /\ Contains(Sauerstoffsaettigung, Val(measurement_name))
         THEN IF Val(value) > Val(grenzwert) + tolerance THEN "green"
              ELSE IF Val(value) > Val(grenzwert) THEN "yellow"
              ELSE "red"
         ELSE IF Val(value) <= Val(grenzwert) - tolerance THEN "green"
              ELSE IF Val(value) < Val(grenzwert) THEN "yellow"
              ELSE "red"

\* the default branch with no answer at value = limit
get_status_color_GapAtLimit(value, grenzwert, tolerance, measurement_name) ==
    IF isna(value) \/ isna(grenzwert) THEN None
    ELSE IF Truthy(measurement_name)
            /\ Contains(Sauerstoffsaettigung, Val(measurement_name))
         THEN IF Val(value) > Val(grenzwert) + tolerance THEN "green"
              ELSE IF Val(value) > Val(grenzwert) THEN "yellow"
              ELSE "red"
         ELSE IF Val(value) < Val(grenzwert) - tolerance THEN "green"
              ELSE IF Val(value) < Val(grenzwert) THEN "yellow"
              ELSE IF Val(value) > Val(grenzwert) THEN "red"
              ELSE None

get_status_color(value, grenzwert, tolerance, measurement_name) ==
    IF isna(value) \/ isna(grenzwert) THEN None
    ELSE IF Truthy(measurement_name)
            /\ Contains(Sauerstoffsaettigung, Val(measurement_name))
         THEN IF Val(value) > Val(grenzwert) + tolerance THEN "green"
              ELSE IF Val(value) > Val(grenzwert) THEN "yellow"
              ELSE "red"
         ELSE IF Val(value) < Val(grenzwert) - tolerance THEN "green"
              ELSE IF Val(value) < Val(grenzwert) THEN "yellow"
              ELSE "red"

\* src/BACKUPgrenzwert.py: no measurement name, one direction
get_status_color_backup(value, grenzwert, tolerance) ==
    IF isna(value) \/ isna(grenzwert) THEN None
    ELSE IF Val(value) < Val(grenzwert) - tolerance THEN "green"
    ELSE IF Val(value) < Val(grenzwert) THEN "yellow"
    ELSE "red"

----------------------------------------------------------------------------
(* Column-name normalization *)

\* the replacement chain with the closing bracket dropped after the degree
\* token was replaced
cleaned_BracketLate(col) ==
    LET a == str_replace(col, <<"[">>, <<"_">>)
        b == str_replace(a, DegreeToken, <<"d", "e", "g">>)
        c == str_replace(b, <<"]">>, <<>>)
        d == str_replace(c, <<"/">>, <<"_">>)
        e == str_replace(d, <<" ">>, <<"_">>)
    IN  strip(re_sub_underscores(e), {"_"})

\* get_measurements: the cleaned name of a column header
cleaned(col) ==
    LET a == str_replace(col, <<"[">>, <<"_">>)
        b == str_replace(a, <<"]">>, <<>>)
        c == str_replace(b, DegreeToken, <<"d", "e", "g">>)
        d == str_replace(c, <<"/">>, <<"_">>)
        e == str_replace(d, <<" ">>, <<"_">>)
    IN  strip(re_sub_underscores(e), {"_"})

\* the chain of the limit table with the slash left in place
Messwert_cleaned_SlashKept(x) ==
    IF isna(x) THEN x
    ELSE LET a == str_replace(Val(x), <<"[">>, <<"_">>)
             b == str_replace(a, <<"]">>, <<>>)
             c == str_replace(b, DegreeToken, <<"d", "e", "g">>)
             e == str_replace(c, <<" ">>, <<"_">>)
         IN  Some(strip(re_sub_underscores(e), {"_"}))

\* get_limit_values: the cleaned name of a limit entry's (optional) Messwert
Messwert_cleaned(x) ==
    LET first == IF ~isna(x)
                 THEN Some(str_replace(
                          str_replace(
                            str_replace(
                              str_replace(
                                str_replace(Val(x), <<"[">>, <<"_">>),
                                <<"]">>, <<>>),
                              DegreeToken, <<"d", "e", "g">>),
                            <<"/">>, <<"_">>),
                          <<" ">>, <<"_">>))
                 ELSE x
    IN  IF ~isna(first)
        THEN Some(strip(re_sub_underscores(Val(first)), {"_"}))
        ELSE first

----------------------------------------------------------------------------
(* Display unit *)

\* [^\]]+ from position k on: the position after the longest run of
\* characters other than ']'
RECURSIVE run_end(_, _)
run_end(s, k) ==
    IF k <= Len(s) /\ s[k] # "]" THEN run_end(s, k + 1) ELSE k

\* re.search(r'\[([^\]]+)\]', s) tried from position i on: group(1) of the
\* leftmost match, or no match
RECURSIVE re_search_bracket(_, _)
re_search_bracket(s, i) ==
    IF i > Len(s) THEN Missing
    ELSE IF /\ s[i] = "["
            /\ run_end(s, i + 1) > i + 1
            /\ run_end(s, i + 1) <= Len(s)
         THEN Some(SubSeq(s, i + 1, run_end(s, i + 1) - 1))
         ELSE re_search_bracket(s, i + 1)

\* s.split('_', 1)[1] for an s that holds an underscore
RECURSIVE split_underscore_1(_)
split_underscore_1(s) ==
    IF Head(s) = "_" THEN Tail(s) ELSE split_underscore_1(Tail(s))

startswith(s, prefix) == MatchAt(s, prefix, 1)

endswith(s, suffix) ==
    Len(suffix) <= Len(s) /\ MatchAt(s, suffix, Len(s) - Len(suffix) + 1)

Temp_ == <<"T", "e", "m", "p", "_">>

\* the degree sign as it is spelled in src/quali.py, then C
DegreeC == DegreeToken \o <<"C">>

mg_l == <<"m", "g", "/", "l">>

mg_L == <<"m", "g", "/", "L">>

ortho_PO4 == <<"o", "r", "t", "h", "o", "_", "P", "O", "4">>

\* the underscore format tried before the bracket format
extract_unit_UnderscoreFirst(column_name) ==
    IF Contains(<<"_">>, column_name)
    THEN LET unit == split_underscore_1(column_name)
         IN  IF startswith(column_name, Temp_) THEN DegreeC
             ELSE IF endswith(unit, mg_l) THEN mg_L
             ELSE IF Contains(mg_L, unit) THEN mg_L
             ELSE IF unit = ortho_PO4 THEN mg_L
             ELSE unit
    ELSE LET bracket_match == re_search_bracket(column_name, 1)
         IN  IF bracket_match # Missing THEN Val(bracket_match) ELSE <<>>

\* extract_unit(column_name)
extract_unit(column_name) ==
    LET bracket_match == re_search_bracket(column_name, 1)
    IN  IF bracket_match # Missing THEN Val(bracket_match)
        ELSE IF Contains(<<"_">>, column_name)
        THEN LET unit == split_underscore_1(column_name)
             IN  IF startswith(column_name, Temp_) THEN DegreeC
                 ELSE IF endswith(unit, mg_l) THEN mg_L
                 ELSE IF Contains(mg_L, unit) THEN mg_L
                 ELSE IF unit = ortho_PO4 THEN mg_L
                 ELSE unit
        ELSE <<>>

----------------------------------------------------------------------------
(* Tables *)

(* A remote measurement file is [headers, rows]: headers are the header    *)
(* texts of the columns other than Nummer and Tag, in file order; a row is *)
(* [Nummer, Tag, cells] with one cell per header.  A cell of the file is   *)
(* [num |-> n], [text |-> t] or [empty |-> TRUE].  Tag is a timestamp in   *)
(* half days since 1 Jan 2024 00:00 (a date is an even number).            *)

NumCell(n) == [num |-> n]

TextCell(t) == [text |-> t]

EmptyCell == [empty |-> TRUE]

\* pd.to_numeric(cell, errors="coerce")
to_numeric(cell) == IF "num" \in DOMAIN cell THEN Some(cell.num) ELSE Missing

Nummer == <<"N", "u", "m", "m", "e", "r">>

Name == <<"N", "a", "m", "e">>

Uhrzeit == <<"U", "h", "r", "z", "e", "i", "t">>

Bemerkung == <<"B", "e", "m", "e", "r", "k", "u", "n", "g">>

Digits == {"0", "1", "2", "3", "4", "5", "6", "7", "8", "9"}

DigitValue(ch) ==
    CASE ch = "0" -> 0 [] ch = "1" -> 1 [] ch = "2" -> 2 [] ch = "3" -> 3
      [] ch = "4" -> 4 [] ch = "5" -> 5 [] ch = "6" -> 6 [] ch = "7" -> 7
      [] ch = "8" -> 8 [] ch = "9" -> 9

RECURSIVE DecimalValue(_)
DecimalValue(ds) ==
    IF ds = <<>> THEN 0
    ELSE 10 * DecimalValue(SubSeq(ds, 1, Len(ds) - 1)) + DigitValue(ds[Len(ds)])

(* A Python value passed as a station number is [int |-> n] or             *)
(* [str |-> text].  int(number) of an int is that int; of a text it is the *)
(* value of its decimal digits after surrounding whitespace is dropped,    *)
(* and it raises for any other text (signs and digit separators are not    *)
(* enumerated).                                                            *)
IntOf(n) == [int |-> n]

StrOf(t) == [str |-> t]

IsDecimal(t) == t # <<>> /\ \A i \in 1..Len(t) : t[i] \in Digits

\* try: num = int(number)  except Exception: num = number
int_or_self(station) ==
    IF "int" \in DOMAIN station THEN station
    ELSE IF IsDecimal(strip(station.str, Whitespace))
         THEN IntOf(DecimalValue(strip(station.str, Whitespace)))
         ELSE station

\* df["Nummer"] == num, for one row of an integer Nummer column
NummerEquals(row, num) == "int" \in DOMAIN num /\ row.Nummer = num.int

\* the columns of the frame once Tag is the index: Nummer, then the rest
FrameColumns(file) ==
    <<Nummer>> \o [i \in 1..Len(file.headers) |->
                      strip(file.headers[i], Whitespace)]

IsSortedByTag(rows) ==
    \A i \in 1..Len(rows), j \in 1..Len(rows) :
        i < j => rows[i].Tag <= rows[j].Tag

Orders(n) ==
    {f \in [1..n -> 1..n] : \A i, j \in 1..n : f[i] = f[j] => i = j}

\* df.set_index("Tag").sort_index(): the default sort is not stable, so
\* rows of equal Tag may come out in any order
sort_index(rows) ==
    {[i \in 1..Len(rows) |-> rows[f[i]]] :
        f \in {g \in Orders(Len(rows)) :
                 IsSortedByTag([i \in 1..Len(rows) |-> rows[g[i]]])}}

\* the coercion loop: every column but Name and Uhrzeit goes through
\* pd.to_numeric
Coerce(row, columns) ==
    [Nummer |-> row.Nummer, Tag |-> row.Tag,
     cells |-> [i \in 1..Len(row.cells) |->
                  IF columns[i + 1] \notin {Name, Uhrzeit}
                  THEN to_numeric(row.cells[i])
                  ELSE row.cells[i]]]

\* the mapping that keeps, for each cleaned name, the first column
ColumnMapping_First(columns) ==
    [c \in {cleaned(columns[i]) : i \in 1..Len(columns)} |->
        LET first == CHOOSE i \in 1..Len(columns) :
                        /\ cleaned(columns[i]) = c
                        /\ \A j \in 1..Len(columns) :
                             cleaned(columns[j]) = c => i <= j
        IN  columns[first]]

\* column_mapping[cleaned] = original_col, in column order: for each
\* cleaned name the last column that cleans to it
ColumnMapping(columns) ==
    [c \in {cleaned(columns[i]) : i \in 1..Len(columns)} |->
        LET last == CHOOSE i \in 1..Len(columns) :
                       /\ cleaned(columns[i]) = c
                       /\ \A j \in 1..Len(columns) :
                            cleaned(columns[j]) = c => j <= i
        IN  columns[last]]

\* cleaned_columns[col] = cleaned
CleanedColumns(columns) ==
    [col \in {columns[i] : i \in 1..Len(columns)} |-> cleaned(col)]

\* the dtype of a column after the coercion loop: a coerced column is
\* numeric; Name and Uhrzeit keep what read_csv inferred for the file
dtype(file, i) ==
    IF FrameColumns(file)[i] \notin {Name, Uhrzeit} THEN "number"
    ELSE IF /\ file.rows # <<>>
            /\ \A k \in 1..Len(file.rows) :
                 "text" \notin DOMAIN file.rows[k].cells[i - 1]
         THEN "number"
         ELSE "object"

\* the frames get_measurements may return once `kept` are the rows left by
\* the station filter: sorted, coerced, renamed, with the two attrs
Frames(file, kept) ==
    LET columns == FrameColumns(file)
    IN  {[rows |-> [i \in 1..Len(sorted) |-> Coerce(sorted[i], columns)],
          columns |-> [i \in 1..Len(columns) |-> cleaned(columns[i])],
          dtypes |-> [i \in 1..Len(columns) |-> dtype(file, i)],
          column_mapping |-> ColumnMapping(columns),
          cleaned_columns |-> CleanedColumns(columns)] :
            sorted \in sort_index(kept)}

\* the call raised instead of returning a frame
Raised == [raised |-> TRUE]

\* two columns carry the same name once the headers are stripped; for such
\* a name df[col] is a frame, and pd.to_numeric raises on it
SameNamedColumns(columns) ==
    \E i \in 1..Len(columns), j \in 1..Len(columns) :
        /\ i < j
        /\ columns[i] = columns[j]
        /\ columns[i] \notin {Name, Uhrzeit}

\* station filter that keeps the whole file
get_measurements_NoFilter(file, station) == Frames(file, file.rows)

\* get_measurements(number) on a fetched file: the frames it may return,
\* or Raised
get_measurements(file, station) ==
    IF SameNamedColumns(FrameColumns(file)) THEN {Raised}
    ELSE Frames(file,
                SelectSeq(file.rows,
                          LAMBDA row :
                            NummerEquals(row, int_or_self(station))))

----------------------------------------------------------------------------
(* Inputs of the calls under study *)

\* how far around a limit the measured values are enumerated (hundredths)
Spread == 7

Limits == {0, 1300}

Values ==
    UNION {(L - Spread)..(L + Spread) : L \in Limits} \cup {1230, 1296, 1310}

OptValues == {Missing} \cup {Some(v) : v \in Values}

OptLimits == {Missing} \cup {Some(L) : L \in Limits}

pH == <<"p", "H">>

O2Header ==
    Sauerstoffsaettigung \o <<" ", "[", "%", "]">>

MeasurementNames ==
    {Missing, Some(<<>>), Some(pH), Some(Sauerstoffsaettigung), Some(O2Header),
     Some(<<"S", "a", "u", "e", "r", "s", "t", "o", "f", "f">>)}

\* longest header text enumerated
MaxHeaderLen == 3

Alphabet == {"a", "_", "[", "]", "/", " ", "not", "inf"}

Texts == UNION {[1..n -> Alphabet] : n \in 0..MaxHeaderLen}

CleanedCalls == [fn : {"cleaned"}, col : Texts]

MesswertCleanedCalls ==
    [fn : {"Messwert_cleaned"}, x : {Missing} \cup {Some(t) : t \in Texts}]

\* most rows in a measurement file
MaxRows == 2

AB == <<"a", " ", "b">>

AslashB == <<"a", "/", "b", " ">>

\* header lists of the columns other than Nummer and Tag
HeaderLists == {<<pH, O2Header>>, <<AB, AslashB>>}

\* 31 Dec 2024 and 1 Jan 2025, in half days since 1 Jan 2024
Tags == {730, 732}

CellLists ==
    {<<NumCell(1296), EmptyCell>>, <<NumCell(1310), NumCell(1230)>>}

CsvRows == [Nummer : {1, 12}, Tag : Tags, cells : CellLists]

\* two headers that differ only in surrounding whitespace
pHpH == <<pH, <<"p", "H", " ">>>>

CsvFiles ==
    [headers : HeaderLists,
     rows : UNION {[1..n -> CsvRows] : n \in 0..MaxRows}]
    \cup [headers : {pHpH}, rows : {<<>>} \cup [{1} -> CsvRows]]

NumberArgs ==
    {IntOf(1), IntOf(12), StrOf(<<"1">>), StrOf(<<"1", "2", " ">>),
     StrOf(<<"0", "1">>), StrOf(<<"a">>)}

MeasurementCalls ==
    [fn : {"get_measurements"}, file : CsvFiles, number : NumberArgs]

NoCall == [fn |-> "none"]

Pending == "pending"

ColorCalls ==
    [fn : {"get_status_color"}, value : OptValues, limit : OptLimits,
     tolerance : {Tolerance}, measurement_name : MeasurementNames]

BackupColorCalls ==
    [fn : {"get_status_color_backup"}, value : OptValues, limit : OptLimits,
     tolerance : {Tolerance}]

\* column names in the two unit formats, next to the enumerated texts
UnitNames ==
    Texts \cup
    {O2Header,
     <<"T", "e", "m", "p", " ", "[">> \o DegreeC \o <<"]">>,
     Temp_ \o <<"W", "_">> \o DegreeC,
     Temp_,
     Temp_ \o <<"[", "a", "]">>,
     <<"t", "e", "m", "p", "_", "a">>,
     <<"a">> \o Temp_ \o <<"b">>,
     <<"a", "_">> \o mg_l,
     <<"a", "_", "b", "_">> \o mg_l,
     <<"a", "_">> \o mg_l \o <<"_", "b">>,
     <<"N", "H", "4", "_">> \o mg_L,
     <<"a", "_">> \o mg_L \o <<" ", "b">>,
     mg_L \o <<"_", "a">>,
     <<"a", "_">> \o ortho_PO4,
     <<"a", "_", "b", "_">> \o ortho_PO4,
     ortho_PO4,
     <<"[", "]", "a", "_", "[", "b", "_", "c", "]", "[", "d", "]">>,
     <<"a", "_", "[", "[", "b", "]", "]">>,
     <<"a", "_", "b", "_", "c">>,
     <<"a", "[", "b">>,
     pH}

ExtractUnitCalls == [fn : {"extract_unit"}, column_name : UnitNames]

Calls ==
    ColorCalls \cup BackupColorCalls \cup CleanedCalls
    \cup MesswertCleanedCalls \cup MeasurementCalls \cup ExtractUnitCalls

----------------------------------------------------------------------------
(* The calls as a state machine *)

\* the page script does not run while a call is studied
PageIdle ==
    /\ csvFile = Missing /\ limitFile = Missing
    /\ fetches = <<>> /\ messages = <<>>
    /\ map_data = Missing /\ time_option = Missing
    /\ number = Missing /\ measurements = Missing
    /\ start_ts = Missing /\ end_ts = Missing /\ filtered = Missing
    /\ measurement_choice = Missing /\ measurement_choice_display = Missing
    /\ limit = Missing /\ status_line = Missing /\ Status = Missing
    /\ Bemerkung_display = Missing
    /\ chart = FALSE /\ downloads = {} /\ csv_data_filtered = Missing

InitCalls ==
    /\ call \in Calls
    /\ ret = Pending
    /\ pc = "call"
    /\ PageIdle

Call_get_status_color ==
    /\ pc = "call"
    /\ call.fn = "get_status_color"
    /\ ret' = get_status_color(call.value, call.limit, call.tolerance,
                               call.measurement_name)
    /\ pc' = "return"
    /\ UNCHANGED <<call, page>>

Call_get_status_color_backup ==
    /\ pc = "call"
    /\ call.fn = "get_status_color_backup"
    /\ ret' = get_status_color_backup(call.value, call.limit, call.tolerance)
    /\ pc' = "return"
    /\ UNCHANGED <<call, page>>

Call_cleaned ==
    /\ pc = "call"
    /\ call.fn = "cleaned"
    /\ ret' = cleaned(call.col)
    /\ pc' = "return"
    /\ UNCHANGED <<call, page>>

Call_Messwert_cleaned ==
    /\ pc = "call"
    /\ call.fn = "Messwert_cleaned"
    /\ ret' = Messwert_cleaned(call.x)
    /\ pc' = "return"
    /\ UNCHANGED <<call, page>>

Call_get_measurements ==
    /\ pc = "call"
    /\ call.fn = "get_measurements"
    /\ ret' \in get_measurements(call.file, call.number)
    /\ pc' = "return"
    /\ UNCHANGED <<call, page>>

Call_extract_unit ==
    /\ pc = "call"
    /\ call.fn = "extract_unit"
    /\ ret' = extract_unit(call.column_name)
    /\ pc' = "return"
    /\ UNCHANGED <<call, page>>

NextCalls ==
    \/ Call_get_measurements
    \/ Call_extract_unit
    \/ Call_get_status_color
    \/ Call_get_status_color_backup
    \/ Call_cleaned
    \/ Call_Messwert_cleaned

SpecCalls == InitCalls /\ [][NextCalls]_vars

----------------------------------------------------------------------------
(* Calendar: timestamps are half days since 1 Jan 2024 00:00 *)

IsLeap(y) == y % 4 = 0 /\ (y % 100 # 0 \/ y % 400 = 0)

DaysInYear(y) == IF IsLeap(y) THEN 366 ELSE 365

\* datetime.datetime(y, 1, 1)
RECURSIVE Jan1(_)
Jan1(y) == IF y <= 2024 THEN 0 ELSE Jan1(y - 1) + 2 * DaysInYear(y - 1)

\* the year's window ending on 30 December
Dec31_Dec30(y) == Jan1(y + 1) - 4

\* datetime.datetime(y, 12, 31)
Dec31(y) == Jan1(y + 1) - 2

\* measurements.index.year
RECURSIVE YearFrom(_, _)
YearFrom(ts, y) == IF ts < Jan1(y + 1) THEN y ELSE YearFrom(ts, y + 1)

YearOf(ts) == YearFrom(ts, 2024)

\* datetime.timedelta(days=365)
Days365 == 730

----------------------------------------------------------------------------
(* Inputs of a page run *)

\* rows of the measurement file the page reads
PageRows ==
    {[Nummer |-> 12, Tag |-> 730, cells |-> <<NumCell(1296), EmptyCell>>],
     [Nummer |-> 12, Tag |-> 732, cells |-> <<NumCell(1310), NumCell(1230)>>],
     [Nummer |-> 12, Tag |-> 732, cells |-> <<NumCell(1296), EmptyCell>>],
     [Nummer |-> 1, Tag |-> 732, cells |-> <<NumCell(1310), NumCell(1230)>>]}

klar == <<"k", "l", "a", "r">>

\* rows of a file whose columns are pH and Bemerkung: a remark in words, no
\* remark, a blank remark
RemarkRows ==
    {[Nummer |-> 12, Tag |-> 732,
      cells |-> <<NumCell(1296), TextCell(klar)>>],
     [Nummer |-> 12, Tag |-> 730, cells |-> <<NumCell(1310), EmptyCell>>],
     [Nummer |-> 12, Tag |-> 732,
      cells |-> <<NumCell(1230), TextCell(<<" ">>)>>]}

\* rows of a file whose columns are Uhrzeit and Bemerkung
ClockRows ==
    {[Nummer |-> 12, Tag |-> 732,
      cells |-> <<TextCell(<<"9", ":", "3", "0">>), TextCell(klar)>>],
     [Nummer |-> 12, Tag |-> 730,
      cells |-> <<TextCell(<<"9", ":", "3", "0">>), EmptyCell>>]}

PageFiles ==
    [headers : HeaderLists,
     rows : UNION {[1..n -> PageRows] : n \in 0..MaxRows}]
    \cup [headers : {<<pH, Bemerkung>>},
          rows : UNION {[1..n -> RemarkRows] : n \in 0..MaxRows}]
    \cup [headers : {<<Uhrzeit, Bemerkung>>},
          rows : UNION {[1..n -> ClockRows] : n \in 0..MaxRows}]
    \cup [headers : {pHpH}, rows : [{1} -> PageRows]]

\* Grenzwerte.csv: rows [Messwert, Grenzwert], both optional
LimitFiles ==
    {<<>>,
     <<[Messwert |-> Some(pH), Grenzwert |-> Some(1300)],
       [Messwert |-> Some(<<"p", "H", " ">>), Grenzwert |-> Some(0)],
       [Messwert |-> Some(<<"a", "_", "b">>), Grenzwert |-> Missing]>>,
     <<[Messwert |-> Missing, Grenzwert |-> Some(0)],
       [Messwert |-> Some(<<" ">> \o O2Header), Grenzwert |-> Some(1300)],
       [Messwert |-> Some(<<"[", "a", "/", "b">>), Grenzwert |-> Some(1300)]>>}

\* the popup text of the clicked marker: none, a text without the
\* STATION_<digits> marker, or the digits of the marker
NoClick == [clicked |-> FALSE]

NoMarker == [clicked |-> TRUE, marker |-> Missing]

Marker(ds) == [clicked |-> TRUE, marker |-> Some(ds)]

Popups == {NoClick, NoMarker, Marker(<<"1", "2">>)}

\* datetime.datetime.today(): 31 Dec 2025 at 00:00 and at 12:00
Todays == {1460, 1461}

\* st.date_input: a pair of dates, or one date while the range is being
\* picked
DateInputs == {<<730, 730>>, <<732>>}

Box(level, text) == [level |-> level, text |-> text]

Fetch(table, ok) == [table |-> table, ok |-> ok]

----------------------------------------------------------------------------
(* The page script, top to bottom *)

Init ==
    /\ call = NoCall
    /\ ret = Pending
    /\ pc = "get_stations"
    /\ csvFile \in PageFiles
    /\ limitFile \in LimitFiles
    /\ fetches = <<>> /\ messages = <<>>
    /\ map_data = Missing /\ time_option = Missing
    /\ number = Missing /\ measurements = Missing
    /\ start_ts = Missing /\ end_ts = Missing /\ filtered = Missing
    /\ measurement_choice = Missing /\ measurement_choice_display = Missing
    /\ limit = Missing /\ status_line = Missing /\ Status = Missing
    /\ Bemerkung_display = Missing
    /\ chart = FALSE /\ downloads = {} /\ csv_data_filtered = Missing

\* every box before a stop shown as an error
StopWith_AsError(box) ==
    /\ messages' = Append(messages, Box("error", box.text))
    /\ pc' = "stopped"

\* st.stop() after a message box
StopWith(box) ==
    /\ messages' = Append(messages, box)
    /\ pc' = "stopped"

\* the station list fails to load and the script goes on
LoadStations_NoStop ==
    /\ pc = "get_stations"
    /\ \E ok \in BOOLEAN :
         /\ fetches' = Append(fetches, Fetch("stations", ok))
         /\ messages' =
              IF ok THEN messages
              ELSE Append(messages,
                     Box("error",
                         "Messstationen konnten nicht geladen werden"))
    /\ pc' = "st_folium"
    /\ UNCHANGED <<call, ret, remote, selections, locals, status_line, Status,
                   Bemerkung_display, chart, downloads, csv_data_filtered>>

\* stations = get_stations()
LoadStations ==
    /\ pc = "get_stations"
    /\ \E ok \in BOOLEAN :
         /\ fetches' = Append(fetches, Fetch("stations", ok))
         /\ IF ok
            THEN pc' = "st_folium" /\ UNCHANGED messages
            ELSE StopWith(Box("error",
                              "Messstationen konnten nicht geladen werden"))
    /\ UNCHANGED <<call, ret, remote, selections, Bemerkung_display,
                   locals, status_line, Status, chart,
                   downloads, csv_data_filtered>>

\* the map and the station number of the clicked marker
SelectStation ==
    /\ pc = "st_folium"
    /\ \E popup \in Popups :
         /\ map_data' = Some(popup)
         /\ IF ~popup.clicked
            THEN /\ StopWith(Box("info", "Bitte Messpunkt waehlen"))
                 /\ UNCHANGED number
            ELSE IF isna(popup.marker)
            THEN /\ StopWith(Box("error",
                       "Stationsnummer konnte nicht extrahiert werden"))
                 /\ UNCHANGED number
            ELSE /\ number' = Some(DecimalValue(Val(popup.marker)))
                 /\ pc' = "get_measurements"
                 /\ UNCHANGED messages
    /\ UNCHANGED <<call, ret, remote, time_option, Bemerkung_display,
                   measurements, start_ts, end_ts, filtered,
                   measurement_choice, measurement_choice_display, limit,
                   fetches, status_line, Status, chart, downloads,
                   csv_data_filtered>>

\* measurements = get_measurements(number)
LoadMeasurements ==
    /\ pc = "get_measurements"
    /\ \E ok \in BOOLEAN,
          df \in get_measurements(csvFile, IntOf(Val(number))) :
         LET returned == ok /\ df # Raised
         IN  /\ fetches' = Append(fetches, Fetch("measurements", returned))
             /\ IF returned
                THEN /\ measurements' = Some(df)
                     /\ pc' = "time_option"
                     /\ UNCHANGED messages
                ELSE /\ StopWith(Box("error",
                           "Messwerte konnten nicht geladen werden"))
                     /\ UNCHANGED measurements
    /\ UNCHANGED <<call, ret, remote, selections, Bemerkung_display,
                   number, start_ts, end_ts, filtered,
                   measurement_choice, measurement_choice_display, limit,
                   status_line, Status, chart, downloads,
                   csv_data_filtered>>

Tags_of(df) == {df.rows[i].Tag : i \in 1..Len(df.rows)}

Min(S) == CHOOSE x \in S : \A y \in S : x <= y

Max(S) == CHOOSE x \in S : \A y \in S : x >= y

\* sorted(measurements.index.year.unique(), reverse=True), as a set
available_years(df) == {YearOf(t) : t \in Tags_of(df)}

\* str(year) of a natural number: its decimal digits
DigitOf(n) == CHOOSE ch \in Digits : DigitValue(ch) = n

RECURSIVE str_int(_)
str_int(n) == IF n < 10 THEN <<DigitOf(n)>>
              ELSE Append(str_int(n \div 10), DigitOf(n % 10))

\* an entry of the time-range dropdown: one of the fixed entries, or the
\* text of a year
FixedOption(label) == [fixed |-> label]

YearOption(y) == [year |-> str_int(y)]

\* time_options, as a set: the fixed entries and str(year) for each of the
\* available years
time_options(df) ==
    {FixedOption("Gesamtzeitraum"), FixedOption("Letzte 365 Tage"),
     FixedOption("Benutzerdefiniert")}
    \cup {YearOption(y) : y \in available_years(df)}

\* the window [start, end] of a time option; pd.to_datetime of either end
\* keeps it (NaT, the min and max of an empty index, is Missing)
Gesamtzeitraum(df) ==
    IF Tags_of(df) = {} THEN <<Missing, Missing>>
    ELSE <<Some(Min(Tags_of(df))), Some(Max(Tags_of(df)))>>

Letzte365Tage(today) == <<Some(today - Days365), Some(today)>>

Jahr(y) == <<Some(Jan1(y)), Some(Dec31(y))>>

\* the time-range dropdown and the window of the picked entry
SelectTime ==
    /\ pc = "time_option"
    /\ \E option \in time_options(Val(measurements)) :
         /\ time_option' = Some(option)
         /\ IF option = FixedOption("Gesamtzeitraum")
            THEN /\ start_ts' = Gesamtzeitraum(Val(measurements))[1]
                 /\ end_ts' = Gesamtzeitraum(Val(measurements))[2]
                 /\ pc' = "mask"
                 /\ UNCHANGED messages
            ELSE IF option = FixedOption("Letzte 365 Tage")
            THEN \E today \in Todays :
                    /\ start_ts' = Letzte365Tage(today)[1]
                    /\ end_ts' = Letzte365Tage(today)[2]
                    /\ pc' = "mask"
                    /\ UNCHANGED messages
            ELSE IF option = FixedOption("Benutzerdefiniert")
            THEN \E d \in DateInputs :
                    IF Len(d) = 2
                    THEN /\ start_ts' = Some(d[1])
                         /\ end_ts' = Some(d[2])
                         /\ pc' = "mask"
                         /\ UNCHANGED messages
                    ELSE \* unpacking a single date raises
                         /\ StopWith(Box("info", "Bitte Zeitraum waehlen"))
                         /\ UNCHANGED <<start_ts, end_ts>>
            ELSE IF IsDecimal(option.year)
            THEN /\ start_ts' = Jahr(DecimalValue(option.year))[1]
                 /\ end_ts' = Jahr(DecimalValue(option.year))[2]
                 /\ pc' = "mask"
                 /\ UNCHANGED messages
            ELSE /\ StopWith(Box("error", "Ungueltiges Jahr"))
                 /\ UNCHANGED <<start_ts, end_ts>>
    /\ UNCHANGED <<call, ret, remote, map_data, Bemerkung_display,
                   number, measurements, filtered,
                   measurement_choice, measurement_choice_display, limit,
                   fetches, status_line, Status, chart, downloads,
                   csv_data_filtered>>

\* (index >= start_ts) & (index <= end_ts); a comparison with NaT is False
in_window(tag, start, end) ==
    /\ ~isna(start) /\ ~isna(end)
    /\ tag >= Val(start)
    /\ tag <= Val(end)

\* the mask with the end of the window left out
date_mask_EndExclusive(rows, start, end) ==
    SelectSeq(rows, LAMBDA row :
        ~isna(start) /\ ~isna(end) /\ row.Tag >= Val(start)
        /\ row.Tag < Val(end))

\* rows.loc[mask]
date_mask(rows, start, end) ==
    SelectSeq(rows, LAMBDA row : in_window(row.Tag, start, end))

\* filtered = measurements.loc[mask].reset_index()
FilterWindow ==
    /\ pc = "mask"
    /\ filtered' = Some(date_mask(Val(measurements).rows, start_ts, end_ts))
    /\ messages' =
         IF Val(filtered') = <<>>
         THEN Append(messages,
                     Box("info", "Keine Messwerte im gewaehlten Zeitraum"))
         ELSE messages
    /\ pc' = "numeric_candidates"
    /\ UNCHANGED <<call, ret, remote, selections, Bemerkung_display,
                   number, measurements, start_ts, end_ts,
                   measurement_choice, measurement_choice_display, limit,
                   fetches, status_line, Status, chart, downloads,
                   csv_data_filtered>>

exclude_cols ==
    {Nummer,
     <<"B", "r", "e", "i", "t", "e", "n", "g", "r", "a", "d">>,
     <<"L", "sqrt", "sect", "n", "g", "e", "n", "g", "r", "a", "d">>,
     <<"Q", "u", "e", "l", "l", "e">>,
     <<"G", "e", "w", "sqrt", "sect", "s", "s", "e", "r">>,
     Bemerkung}

\* the candidates with Bemerkung not among the excluded names
numeric_candidates_KeepsBemerkung(df) ==
    LET keep == {i \in 1..Len(df.columns) :
                    /\ df.dtypes[i] = "number"
                    /\ df.columns[i] \notin exclude_cols \ {Bemerkung}}
        F[i \in 0..Len(df.columns)] ==
            IF i = 0 THEN <<>>
            ELSE IF i \in keep THEN Append(F[i - 1], df.columns[i])
            ELSE F[i - 1]
    IN  F[Len(df.columns)]

\* the numeric columns that are not excluded, by (cleaned) name, in order
numeric_candidates(df) ==
    LET keep == {i \in 1..Len(df.columns) :
                    df.dtypes[i] = "number" /\ df.columns[i] \notin exclude_cols}
        F[i \in 0..Len(df.columns)] ==
            IF i = 0 THEN <<>>
            ELSE IF i \in keep THEN Append(F[i - 1], df.columns[i])
            ELSE F[i - 1]
    IN  F[Len(df.columns)]

Range(seq) == {seq[i] : i \in 1..Len(seq)}

\* display_names: cleaned name -> column_mapping.get(cleaned, cleaned)
display_names(df) ==
    [c \in Range(numeric_candidates(df)) |->
        IF c \in DOMAIN df.column_mapping THEN df.column_mapping[c] ELSE c]

\* the numeric-column check and the measurement dropdown
SelectMeasurement ==
    /\ pc = "numeric_candidates"
    /\ IF numeric_candidates(Val(measurements)) = <<>>
       THEN /\ StopWith(Box("error",
                  "Keine numerischen Messwerte zum Anzeigen gefunden"))
            /\ UNCHANGED <<measurement_choice, measurement_choice_display>>
       ELSE \E k \in DOMAIN display_names(Val(measurements)) :
              /\ measurement_choice_display' =
                    Some(display_names(Val(measurements))[k])
              /\ measurement_choice' = Some(k)
              /\ pc' = "limit_values"
              /\ UNCHANGED messages
    /\ UNCHANGED <<call, ret, remote, selections, Bemerkung_display,
                   number, measurements, start_ts, end_ts,
                   filtered, limit, fetches, status_line, Status, chart,
                   downloads, csv_data_filtered>>

\* str.strip() of an optional text
str_strip(x) == IF isna(x) THEN x ELSE Some(strip(Val(x), Whitespace))

\* get_limit_values() on a fetched file
get_limit_values(file) ==
    [i \in 1..Len(file) |->
        [Messwert |-> str_strip(file[i].Messwert),
         Grenzwert |-> file[i].Grenzwert,
         Messwert_cleaned |-> Messwert_cleaned(str_strip(file[i].Messwert))]]

\* the lookup by the name as written in the limit file
limit_row_ByMesswert(limit_values, choice) ==
    SelectSeq(limit_values, LAMBDA r : r.Messwert = Some(choice))

\* limit_values[limit_values["Messwert_cleaned"] == measurement_choice]
limit_row(limit_values, choice) ==
    SelectSeq(limit_values, LAMBDA r : r.Messwert_cleaned = Some(choice))

\* the positions of the columns called c
Positions(df, c) == {i \in 1..Len(df.columns) : df.columns[i] = c}

\* filtered[c] is a single column
IsSeries(df, c) == Cardinality(Positions(df, c)) = 1

\* the value of column c in a row
CellOf(df, row, c) == row.cells[(CHOOSE i \in Positions(df, c) : TRUE) - 1]

\* the first row's value in place of the last
latest_value_First(df, rows, c) == CellOf(df, rows[1], c)

\* filtered[measurement_choice].iloc[-1]
latest_value(df, rows, c) == CellOf(df, rows[Len(rows)], c)

\* the status text of the newest value; the last branch takes every
\* status that is neither green nor yellow
color_display(status_color) ==
    IF status_color = "green" THEN "Gruen (OK)"
    ELSE IF status_color = "yellow" THEN "Gelb (Warnung)"
    ELSE "Rot (Grenzwert erreicht/ueberschritten)"

\* the page halts when the limit table has no entry
NoLimitDefined_Stops == StopWith(Box("info", "Keine Grenzwerte definiert"))

\* the else branch of the limit block: an info box, and the script goes on
NoLimitDefined ==
    /\ messages' = Append(messages, Box("info", "Keine Grenzwerte definiert"))
    /\ pc' = "notna_check"

\* the limit block: metric, newest value and its status
LimitValues ==
    /\ pc = "limit_values"
    /\ \E ok \in BOOLEAN :
         /\ fetches' = Append(fetches, Fetch("limits", ok))
         /\ IF ~ok
            THEN /\ messages' = Append(messages,
                       Box("warning",
                           "Grenzwerte konnten nicht geladen werden"))
                 /\ pc' = "notna_check"
                 /\ UNCHANGED <<limit, status_line>>
            ELSE LET df == Val(measurements)
                     c == Val(measurement_choice)
                     rows == limit_row(get_limit_values(limitFile), c)
                 IN  IF rows = <<>>
                     THEN /\ NoLimitDefined
                          /\ UNCHANGED <<limit, status_line>>
                     ELSE /\ limit' = Some(rows[1].Grenzwert)
                          /\ pc' = "notna_check"
                          /\ IF Val(filtered) = <<>>
                             THEN UNCHANGED <<messages, status_line>>
                             ELSE IF ~IsSeries(df, c)
                             THEN \* get_status_color raises on a row of
                                  \* several same-named columns
                                  /\ messages' = Append(messages,
                                        Box("warning",
                                            "Grenzwerte konnten nicht geladen werden"))
                                  /\ UNCHANGED status_line
                             ELSE LET v == latest_value(df, Val(filtered), c)
                                      colour ==
                                        get_status_color(v, rows[1].Grenzwert,
                                            Tolerance,
                                            measurement_choice_display)
                                  IN  /\ status_line' =
                                           Some([latest_value |-> v,
                                                 status_color |-> colour,
                                                 color_display |->
                                                    color_display(colour)])
                                      /\ UNCHANGED messages
    /\ UNCHANGED <<call, ret, remote, selections, Bemerkung_display,
                   number, measurements, start_ts, end_ts,
                   filtered, measurement_choice, measurement_choice_display,
                   Status, chart, downloads, csv_data_filtered>>

\* filtered[measurement_choice].notna().sum() == 0
NotnaCheck ==
    /\ pc = "notna_check"
    /\ LET df == Val(measurements)
           c == Val(measurement_choice)
       IN  IF ~IsSeries(df, c)
           THEN \* the comparison of a frame's sums raises, uncaught
                pc' = "crashed" /\ UNCHANGED messages
           ELSE IF \A i \in 1..Len(Val(filtered)) :
                      isna(CellOf(df, Val(filtered)[i], c))
           THEN StopWith(Box("warning",
                             "Keine Daten im gewaehlten Zeitraum vorhanden"))
           ELSE pc' = "tooltip" /\ UNCHANGED messages
    /\ UNCHANGED <<call, ret, remote, selections, Bemerkung_display,
                   locals, fetches, status_line, Status,
                   chart, downloads, csv_data_filtered>>

\* get_status_display(value): the last branch takes every status that is
\* neither green nor yellow
get_status_display(value, grenzwert, measurement_name) ==
    LET status_color ==
            get_status_color(value, grenzwert, Tolerance, measurement_name)
    IN  IF status_color = "green" THEN "OK"
        ELSE IF status_color = "yellow" THEN "Warnung"
        ELSE "Grenzwert ueberschritten"

NA == <<"N", "/", "A">>

\* lambda x: x if pd.notna(x) and str(x).strip() != "" else "N/A", for a
\* value of the loaded frame's Bemerkung column (a float or NaN, whose text
\* is never blank)
Bemerkung_display_of(x) == IF ~isna(x) THEN NumCell(Val(x)) ELSE TextCell(NA)

\* the Bemerkung_display column, the second limit lookup, the Status column
\* and the chart
Tooltip ==
    /\ pc = "tooltip"
    /\ Bemerkung_display' =
         IF Positions(Val(measurements), Bemerkung) # {}
         THEN Some([i \in 1..Len(Val(filtered)) |->
                      Bemerkung_display_of(
                          CellOf(Val(measurements), Val(filtered)[i],
                                 Bemerkung))])
         ELSE Missing
    /\ \E ok \in BOOLEAN :
         /\ fetches' = Append(fetches, Fetch("limits", ok))
         /\ LET df == Val(measurements)
                c == Val(measurement_choice)
                rows == limit_row(get_limit_values(limitFile), c)
            IN  /\ limit' = IF ok /\ rows # <<>>
                            THEN Some(rows[1].Grenzwert)
                            ELSE Missing
                /\ Status' =
                     IF limit' # Missing
                     THEN Some([i \in 1..Len(Val(filtered)) |->
                                  get_status_display(
                                      CellOf(df, Val(filtered)[i], c),
                                      Val(limit'),
                                      measurement_choice_display)])
                     ELSE Missing
    /\ chart' = TRUE
    /\ pc' = "infobox"
    /\ UNCHANGED <<call, ret, remote, selections,
                   number, measurements, start_ts, end_ts,
                   filtered, measurement_choice, measurement_choice_display,
                   messages, status_line, downloads, csv_data_filtered>>

\* the context information read from Infobox_Messwerte.csv
Infobox ==
    /\ pc = "infobox"
    /\ \E outcome \in {"failed", "found", "absent"} :
         /\ fetches' = Append(fetches, Fetch("infobox", outcome # "failed"))
         /\ messages' =
              IF outcome = "failed"
              THEN Append(messages,
                     Box("warning",
                         "Kontextinformationen konnten nicht geladen werden"))
              ELSE IF outcome = "absent"
              THEN Append(messages,
                     Box("info", "Keine Kontextinformationen verfuegbar"))
              ELSE messages
    /\ pc' = "csv_download"
    /\ UNCHANGED <<call, ret, remote, selections, Bemerkung_display,
                   locals, status_line, Status, chart,
                   downloads, csv_data_filtered>>

\* the two CSV download buttons; a failure passes silently.  The rows of
\* the filtered download are kept as rows; their Tag is written back as
\* text (strftime) only in the downloaded file
CsvDownload ==
    /\ pc = "csv_download"
    /\ \E ok \in BOOLEAN :
         /\ fetches' = Append(fetches, Fetch("measurements", ok))
         /\ IF ok
            THEN /\ downloads' = downloads \cup {"csv_all", "csv_filtered"}
                 /\ csv_data_filtered' =
                        Some(date_mask(csvFile.rows, start_ts, end_ts))
            ELSE UNCHANGED <<downloads, csv_data_filtered>>
    /\ pc' = "chart_export"
    /\ UNCHANGED <<call, ret, remote, selections, Bemerkung_display,
                   locals, messages, status_line, Status,
                   chart>>

\* the HTML export of the chart
ChartExport ==
    /\ pc = "chart_export"
    /\ \E ok \in BOOLEAN :
         IF ok
         THEN /\ downloads' = downloads \cup {"chart_html"}
              /\ UNCHANGED messages
         ELSE /\ messages' = Append(messages,
                    Box("warning",
                        "Diagramm-Download konnte nicht erstellt werden"))
              /\ UNCHANGED downloads
    /\ pc' = "done"
    /\ UNCHANGED <<call, ret, remote, selections, Bemerkung_display,
                   locals, fetches, status_line, Status,
                   chart, csv_data_filtered>>

Next ==
    \/ LoadStations
    \/ SelectStation
    \/ LoadMeasurements
    \/ SelectTime
    \/ FilterWindow
    \/ SelectMeasurement
    \/ LimitValues
    \/ NotnaCheck
    \/ Tooltip
    \/ Infobox
    \/ CsvDownload
    \/ ChartExport

Spec == Init /\ [][Next]_vars

----------------------------------------------------------------------------
(* Properties of the threshold classification *)

Returned(fn) == pc = "return" /\ call.fn = fn

Defined(c) == ~isna(c.value) /\ ~isna(c.limit)

\* the name selects the oxygen-saturation parameter
IsOxygen(c) ==
    /\ c.fn = "get_status_color"
    /\ ~isna(c.measurement_name)
    /\ Contains(Sauerstoffsaettigung, Val(c.measurement_name))

\* the bands of the default direction, as the specification states them
InDefaultBand(colour, v, L, t) ==
    \/ colour = "green" /\ v < L - t
    \/ colour = "yellow" /\ L - t <= v /\ v < L
    \/ colour = "red" /\ v >= L

\* the bands of the inverted direction, as the specification states them
InInvertedBand(colour, v, L, t) ==
    \/ colour = "green" /\ v > L + t
    \/ colour = "yellow" /\ L < v /\ v <= L + t
    \/ colour = "red" /\ v <= L

Colours == {"green", "yellow", "red"}

\* C1: default direction. For a call of get_status_color whose measurement
\* name is absent, empty or not the oxygen-saturation parameter (and for
\* every call of the older get_status_color without a name), with value v
\* and limit L both defined and t = 0.05, the result is green iff v < L - t,
\* yellow iff L - t <= v < L, red iff v >= L; with L = 13, v = 12.3 is
\* green, v = 12.96 is yellow and v = 13.1 is red.
C1_DefaultDirection ==
    (/\ pc = "return"
     /\ call.fn \in {"get_status_color", "get_status_color_backup"}
     /\ Defined(call)
     /\ ~IsOxygen(call))
    => /\ call.tolerance = Tolerance
       /\ \A colour \in Colours :
            ret = colour <=>
                InDefaultBand(colour, Val(call.value), Val(call.limit),
                              Tolerance)
       /\ call.limit = Some(1300) =>
            /\ call.value = Some(1230) => ret = "green"
            /\ call.value = Some(1296) => ret = "yellow"
            /\ call.value = Some(1310) => ret = "red"

C1_Witness ==
    /\ Returned("get_status_color")
    /\ call.measurement_name = Some(pH)
    /\ call.limit = Some(1300)
    /\ call.value = Some(1296)
    /\ ret = "yellow"

\* C2: inverted direction. get_status_color applies the inverted rule
\* exactly when the measurement name is the oxygen-saturation parameter:
\* then, for defined v and L, the result is green iff v > L + t, yellow iff
\* L < v <= L + t, red iff v <= L; for every other name, a missing name and
\* the empty name included, the result follows the default rule.
C2_InvertedDirection ==
    (Returned("get_status_color") /\ Defined(call))
    => \A colour \in Colours :
         ret = colour <=>
            IF IsOxygen(call)
            THEN InInvertedBand(colour, Val(call.value), Val(call.limit),
                                Tolerance)
            ELSE InDefaultBand(colour, Val(call.value), Val(call.limit),
                               Tolerance)

C2_Witness ==
    /\ Returned("get_status_color")
    /\ call.measurement_name = Some(O2Header)
    /\ call.limit = Some(1300)
    /\ call.value = Some(1303)
    /\ ret = "yellow"

DefaultBands(v, L, t) == {c \in Colours : InDefaultBand(c, v, L, t)}

InvertedBands(v, L, t) == {c \in Colours : InInvertedBand(c, v, L, t)}

\* C3: get_status_color returns exactly one of green, yellow, red and
\* undefined; when value and limit are both defined, the value lies in
\* exactly one band of the default direction and in exactly one band of the
\* inverted direction (no gap, no overlap), and the result is the one band
\* of the direction that applies.
C3_BandsPartition ==
    Returned("get_status_color")
    => /\ ret \in Colours \cup {None}
       /\ Defined(call) =>
            LET v == Val(call.value)
                L == Val(call.limit)
                t == call.tolerance
            IN  /\ Cardinality(DefaultBands(v, L, t)) = 1
                /\ Cardinality(InvertedBands(v, L, t)) = 1
                /\ IF IsOxygen(call)
                   THEN {ret} = InvertedBands(v, L, t)
                   ELSE {ret} = DefaultBands(v, L, t)

C3_Witness ==
    /\ Returned("get_status_color")
    /\ call.measurement_name = Some(Sauerstoffsaettigung)
    /\ call.limit = Some(0)
    /\ call.value = Some(0)
    /\ ret = "red"

----------------------------------------------------------------------------
(* Properties of the column-name normalization *)

\* C7: normalization is idempotent. The cleaned name that get_measurements
\* computes for any header text is unchanged when it is cleaned again, and
\* so is the cleaned name get_limit_values computes for a limit entry.
C7_NormalizationIdempotent ==
    /\ Returned("cleaned") => cleaned(ret) = ret
    /\ Returned("Messwert_cleaned") => Messwert_cleaned(ret) = ret

C7_Witness ==
    /\ Returned("cleaned")
    /\ call.col = <<"/", "not", "inf">>
    /\ ret = <<"d", "e", "g">>

\* the text carries no surrounding whitespace
IsStripped(t) == strip(t, Whitespace) = t

\* the limit table read from a file whose one entry is named as the header
LimitEntryNamed(header) ==
    get_limit_values(<<[Messwert |-> Some(header), Grenzwert |-> Missing]>>)[1]

\* C22: the two normalizations are the same function. For every
\* whitespace-stripped name the cleaned name get_measurements computes for a
\* column header equals the cleaned name get_limit_values computes for a
\* limit entry, and so a limit entry written as a header of the measurement
\* file carries, as Messwert_cleaned, the name of that header's column in
\* the frame get_measurements returns.
C22_SameNormalization ==
    /\ (Returned("cleaned") /\ IsStripped(call.col)) =>
          Messwert_cleaned(Some(call.col)) = Some(ret)
    /\ (Returned("Messwert_cleaned") /\ ~isna(call.x)
          /\ IsStripped(Val(call.x))) =>
          ret = Some(cleaned(Val(call.x)))
    /\ (Returned("get_measurements") /\ ret # Raised) =>
          \A i \in 1..Len(call.file.headers) :
             LimitEntryNamed(call.file.headers[i]).Messwert_cleaned
                = Some(ret.columns[i + 1])

C22_Witness ==
    /\ Returned("get_measurements")
    /\ ret # Raised
    /\ call.file.headers = <<AB, AslashB>>
    /\ call.file.rows = <<>>
    /\ ret.columns[3] = <<"a", "_", "b">>
    /\ LimitEntryNamed(AslashB).Messwert = Some(<<"a", "/", "b">>)
    /\ LimitEntryNamed(AslashB).Messwert_cleaned = Some(<<"a", "_", "b">>)

\* a name that every step of the chain rewrites
C22_ChainWitness ==
    /\ Returned("cleaned")
    /\ call.col = <<"[", "/", "a">>
    /\ ret = <<"a">>
    /\ Messwert_cleaned(Some(call.col)) = Some(ret)

----------------------------------------------------------------------------
(* Properties of the display unit *)

\* the positions where a non-empty bracketed group [u] opens: an opening
\* bracket, at least one character, and a closing bracket as the first one
\* after the opening
BracketGroups(s) ==
    {i \in 1..Len(s) :
        /\ s[i] = "["
        /\ \E k \in (i + 2)..Len(s) :
             s[k] = "]" /\ \A j \in (i + 1)..(k - 1) : s[j] # "]"}

\* the content u of the group that opens at position i
GroupContent(s, i) ==
    LET k == CHOOSE k \in (i + 2)..Len(s) :
                s[k] = "]" /\ \A j \in (i + 1)..(k - 1) : s[j] # "]"
    IN  SubSeq(s, i + 1, k - 1)

\* the text after the first underscore
AfterFirstUnderscore(s) ==
    LET p == CHOOSE p \in 1..Len(s) :
                s[p] = "_" /\ \A q \in 1..(p - 1) : s[q] # "_"
    IN  SubSeq(s, p + 1, Len(s))

\* the text names a concentration in mg/l: it ends with 'mg/l', holds
\* 'mg/L', or is the ortho-phosphate name
IsConcentration(text) ==
    \/ \E head \in {SubSeq(text, 1, n) : n \in 0..Len(text)} :
         text = head \o mg_l
    \/ \E i \in 1..(Len(text) - 3) : SubSeq(text, i, i + 3) = mg_L
    \/ text = ortho_PO4

\* C21: extract_unit derives the unit by the bracket or the underscore
\* convention. A name with a non-empty bracketed group [u] gives the content
\* of the first such group, whatever underscores it holds; otherwise a name
\* with an underscore gives the degree sign and C when it starts with
\* 'Temp_', 'mg/L' when the text after the first underscore names a
\* concentration in mg/l, and else that text unchanged; a name with neither
\* gives the empty text.
C21_BracketOrUnderscore ==
    Returned("extract_unit") =>
        LET s == call.column_name
        IN  IF BracketGroups(s) # {}
            THEN \E i \in BracketGroups(s) :
                    /\ \A j \in BracketGroups(s) : i <= j
                    /\ ret = GroupContent(s, i)
            ELSE IF \E p \in 1..Len(s) : s[p] = "_"
            THEN IF Len(s) >= 5 /\ SubSeq(s, 1, 5) = Temp_
                 THEN ret = DegreeToken \o <<"C">>
                 ELSE IF IsConcentration(AfterFirstUnderscore(s))
                 THEN ret = <<"m", "g", "/", "L">>
                 ELSE ret = AfterFirstUnderscore(s)
            ELSE ret = <<>>

C21_Witness ==
    /\ Returned("extract_unit")
    /\ call.column_name =
         <<"[", "]", "a", "_", "[", "b", "_", "c", "]", "[", "d", "]">>
    /\ ret = <<"b", "_", "c">>

\* the underscore convention on its own: a unit is derived from a name
\* without a bracketed group
C21_UnderscoreWitness ==
    /\ Returned("extract_unit")
    /\ call.column_name = <<"a", "_", "b", "_", "m", "g", "/", "l">>
    /\ ret = <<"m", "g", "/", "L">>

----------------------------------------------------------------------------
(* Properties of get_measurements *)

\* how many positions of the sequence satisfy P
Count(seq, P(_)) == Cardinality({i \in 1..Len(seq) : P(seq[i])})

\* the numeric id a call asks for: the integer itself, or the value of a
\* numeric text
RequestedId(station) ==
    IF "int" \in DOMAIN station THEN Some(station.int)
    ELSE IF IsDecimal(strip(station.str, Whitespace))
         THEN Some(DecimalValue(strip(station.str, Whitespace)))
         ELSE Missing

\* C6: get_measurements(number), asked for a numeric id, returns only rows
\* whose Nummer equals that id, returns every row of the fetched file with
\* that id (each as often as the file holds it, its cells coerced), in
\* ascending order of date; asked with a numeric text it may return exactly
\* what it may return for the integer.
C6_StationRows ==
    (Returned("get_measurements") /\ ret # Raised
        /\ ~isna(RequestedId(call.number)))
    => LET id == Val(RequestedId(call.number))
           columns == FrameColumns(call.file)
           wanted == SelectSeq(call.file.rows, LAMBDA r : r.Nummer = id)
       IN  /\ \A i \in 1..Len(ret.rows) : ret.rows[i].Nummer = id
           /\ Len(ret.rows) = Len(wanted)
           /\ \A k \in 1..Len(wanted) :
                LET c == Coerce(wanted[k], columns)
                IN  Count(ret.rows, LAMBDA r : r = c)
                      = Count(wanted, LAMBDA r : Coerce(r, columns) = c)
           /\ \A i \in 1..Len(ret.rows), j \in 1..Len(ret.rows) :
                i < j => ret.rows[i].Tag <= ret.rows[j].Tag
           /\ ret \in get_measurements(call.file, IntOf(id))

C6_Witness ==
    /\ Returned("get_measurements")
    /\ ret # Raised
    /\ call.number = StrOf(<<"1", "2", " ">>)
    /\ Len(call.file.rows) = 2
    /\ call.file.rows[1].Nummer = 12
    /\ call.file.rows[2].Nummer = 1
    /\ Len(ret.rows) = 1

\* C8: round trip. For every column of a frame that get_measurements
\* returned, looking up the column's cleaned name in column_mapping gives
\* back the column's original header text.
C8_RoundTrip ==
    (Returned("get_measurements") /\ ret # Raised)
    => \A i \in 1..Len(FrameColumns(call.file)) :
         LET col == FrameColumns(call.file)[i]
         IN  ret.column_mapping[ret.cleaned_columns[col]] = col

----------------------------------------------------------------------------
(* Properties of the page run *)

Last(seq) == seq[Len(seq)]

ColourTexts ==
    {"Gruen (OK)", "Gelb (Warnung)", "Rot (Grenzwert erreicht/ueberschritten)"}

StatusTexts == {"OK", "Warnung", "Grenzwert ueberschritten"}

\* C4: a missing value or a missing limit is classified as undefined, and no
\* colour is shown for it: the status line of the newest value does not
\* present green, yellow or red when its classification is undefined, and
\* neither does the Status column for a row whose classification is
\* undefined.
C4_NoColourForMissing ==
    /\ status_line # Missing =>
         LET line == Val(status_line)
         IN  /\ isna(line.latest_value) => line.status_color = None
             /\ line.status_color = None => line.color_display \notin ColourTexts
    /\ Status # Missing =>
         \A i \in 1..Len(Val(Status)) :
            LET v == CellOf(Val(measurements), Val(filtered)[i],
                            Val(measurement_choice))
            IN  (isna(v) \/ isna(Val(limit)))
                    => Val(Status)[i] \notin StatusTexts

\* the rows of a table whose date lies in the closed window
InClosedWindow(row) ==
    /\ ~isna(start_ts) /\ ~isna(end_ts)
    /\ Val(start_ts) <= row.Tag
    /\ row.Tag <= Val(end_ts)

\* `part` holds exactly the rows of `whole` inside the window, each as
\* often as `whole` holds it
ExactlyTheWindow(part, whole) ==
    /\ \A i \in 1..Len(part) : InClosedWindow(part[i])
    /\ \A k \in 1..Len(whole) :
         Count(part, LAMBDA r : r = whole[k])
           = IF InClosedWindow(whole[k])
             THEN Count(whole, LAMBDA r : r = whole[k])
             ELSE 0
    /\ \A i \in 1..Len(part) : \E k \in 1..Len(whole) : part[i] = whole[k]

\* C5: filtering by the window [start, end] keeps exactly the rows whose
\* date d satisfies start <= d <= end, both ends included: the filtered
\* series holds exactly those rows of the station's measurements, and the
\* time-filtered CSV download exactly those rows of the file.
C5_ClosedWindow ==
    /\ filtered # Missing =>
         ExactlyTheWindow(Val(filtered), Val(measurements).rows)
    /\ csv_data_filtered # Missing =>
         ExactlyTheWindow(Val(csv_data_filtered), csvFile.rows)

C5_Witness ==
    /\ pc = "done"
    /\ Len(Val(measurements).rows) = 2
    /\ Len(Val(filtered)) = 1
    /\ Val(filtered)[1].Tag = Val(end_ts)
    /\ Val(start_ts) < Val(end_ts)
    /\ csv_data_filtered # Missing
    /\ Len(Val(csv_data_filtered)) = 1

\* the limit rows whose normalized name equals the normalized name of the
\* selected measurement column
MatchingLimitRows ==
    LET selected == cleaned(Val(measurement_choice_display))
    IN  {i \in 1..Len(limitFile) :
            /\ ~isna(limitFile[i].Messwert)
            /\ cleaned(strip(Val(limitFile[i].Messwert), Whitespace))
                 = selected}

\* a limit lookup has just read the limit table
LookedUp ==
    /\ pc \in {"notna_check", "infobox"}
    /\ Last(fetches) = Fetch("limits", TRUE)

\* C9: each lookup that read the limit table uses a limit row iff the row's
\* normalized name equals the normalized name of the selected column: with
\* no such row no limit is applied (no limit, no status line, no Status
\* column), otherwise the limit is the Grenzwert of the first such row.
C9_LimitByCleanedName ==
    LookedUp =>
        IF MatchingLimitRows = {}
        THEN /\ limit = Missing
             /\ status_line = Missing
             /\ Status = Missing
        ELSE /\ limit = Some(limitFile[Min(MatchingLimitRows)].Grenzwert)
             /\ pc = "infobox" => Status # Missing

C9_Witness ==
    /\ LookedUp
    /\ pc = "infobox"
    /\ Cardinality(MatchingLimitRows) = 2
    /\ limit = Some(Some(1300))
    /\ measurement_choice = Some(pH)

\* the rows of the file that belong to the selected station and lie in the
\* window
StationRowsInWindow ==
    {k \in 1..Len(csvFile.rows) :
        /\ csvFile.rows[k].Nummer = Val(number)
        /\ InClosedWindow(csvFile.rows[k])}

\* the file column whose header is the selected measurement
SelectedColumn ==
    CHOOSE j \in 1..Len(csvFile.headers) :
        strip(csvFile.headers[j], Whitespace) = Val(measurement_choice_display)

\* C10: the value shown as the newest measurement and classified against
\* the limit is the selected parameter's value in a row of the greatest
\* date among the selected station's rows inside the window.
C10_LatestFilteredValue ==
    status_line # Missing =>
        /\ StationRowsInWindow # {}
        /\ \E k \in StationRowsInWindow :
             /\ \A m \in StationRowsInWindow :
                  csvFile.rows[m].Tag <= csvFile.rows[k].Tag
             /\ Val(status_line).latest_value
                  = to_numeric(csvFile.rows[k].cells[SelectedColumn])
        /\ pc = "notna_check" =>
             Val(status_line).status_color
               = get_status_color(Val(status_line).latest_value, Val(limit),
                                  Tolerance, measurement_choice_display)

C10_Witness ==
    /\ status_line # Missing
    /\ Len(Val(filtered)) = 2
    /\ Val(filtered)[1].Tag < Val(filtered)[2].Tag
    /\ measurement_choice = Some(pH)
    /\ Val(status_line).latest_value = Some(1310)
    /\ Val(status_line).status_color = "red"

----------------------------------------------------------------------------
(* Properties of the page's failure handling *)

\* the load of the station list or of the station's measurements failed
LoadFailed ==
    \E i \in 1..Len(fetches) :
        \/ fetches[i] = Fetch("stations", FALSE)
        \/ fetches[i] = Fetch("measurements", FALSE) /\ measurements = Missing

LimitWarning == Box("warning", "Grenzwerte konnten nicht geladen werden")

InfoboxWarning ==
    Box("warning", "Kontextinformationen konnten nicht geladen werden")

NoDataWarning ==
    Box("warning", "Keine Daten im gewaehlten Zeitraum vorhanden")

\* the limit block's read of the limit table failed
FirstLimitFetchFailed ==
    /\ Len(fetches) >= 3
    /\ fetches[3] = Fetch("limits", FALSE)

\* C11, as claimed: a failure while fetching any remote table (station list,
\* measurement file, limit table, info-box table) shows a message and halts
\* the page run, so the failed fetch is the last thing the run did.
C11_FailureHalts ==
    \A i \in 1..Len(fetches) :
        ~fetches[i].ok =>
            /\ i = Len(fetches)
            /\ pc = "stopped"
            /\ messages # <<>>
            /\ Last(messages).level \in {"error", "warning"}

\* C11, amended: a failure while loading the station list or the station's
\* measurements shows an error and halts the page run (that fetch is the
\* last one, no chart, no download).  A failure of the limit block's read of
\* the limit table, or of the info-box read, shows a warning and does not
\* halt: the run goes on with its next step, and if it stops after a failed
\* limit read it is the no-data check that stops it.
C11_LoadFailureHalts ==
    /\ LoadFailed =>
         /\ pc = "stopped"
         /\ ~Last(fetches).ok
         /\ Last(messages).level = "error"
         /\ ~chart
         /\ downloads = {}
    /\ (pc = "notna_check" /\ fetches[3] = Fetch("limits", FALSE)) =>
         Last(messages) = LimitWarning
    /\ FirstLimitFetchFailed =>
         /\ \E j \in 1..Len(messages) : messages[j] = LimitWarning
         /\ pc = "stopped" => Last(messages) = NoDataWarning
    /\ (fetches # <<>> /\ Last(fetches) = Fetch("infobox", FALSE)) =>
         /\ pc = "csv_download"
         /\ Last(messages) = InfoboxWarning

C11_Witness ==
    /\ pc = "stopped"
    /\ fetches = <<Fetch("stations", TRUE), Fetch("measurements", FALSE)>>
    /\ number = Some(12)
    /\ messages =
         <<Box("error", "Messwerte konnten nicht geladen werden")>>

\* a step of the page in which a read of a remote table failed
FetchFailedStep ==
    /\ Len(fetches') = Len(fetches) + 1
    /\ ~Last(fetches').ok

\* the chart export step failed: it ended without offering the HTML file
ChartExportFailedStep ==
    /\ pc = "chart_export"
    /\ pc' = "done"
    /\ "chart_html" \notin downloads'

\* C12: every failure is caught where it happens and turned into a message:
\* each step in which a remote read fails (station load, measurement load,
\* limit load, info-box load, CSV download preparation) or in which the
\* chart export fails adds an error or warning box to the page.
C12_EveryFailureShown ==
    [][(FetchFailedStep \/ ChartExportFailedStep) =>
          /\ Len(messages') = Len(messages) + 1
          /\ Last(messages').level \in {"error", "warning"}]_vars

\* C13: no failure is retried: once a read of a remote table has failed in
\* a page run, no later read of that run is of the same table.
C13_NoRefetchAfterFailure ==
    \A i \in 1..Len(fetches), j \in 1..Len(fetches) :
        (i < j /\ ~fetches[i].ok) => fetches[j].table # fetches[i].table

----------------------------------------------------------------------------
(* Properties of the selections *)

\* the map was shown and no marker was clicked
NoStationChosen == map_data # Missing /\ ~Val(map_data).clicked

\* the custom date input was shown and did not yet hold a pair of dates
NoTimeRangeChosen ==
    /\ time_option = Some(FixedOption("Benutzerdefiniert"))
    /\ start_ts = Missing
    /\ end_ts = Missing

\* C14: a missing selection is an expected state, not an error.  With no
\* marker clicked the page shows one info box and halts with no station
\* number; with the time range not yet chosen it shows an info box and halts
\* with no window.  So the measurement file is only ever read for a clicked
\* station, and a chart is only ever drawn with a station number, a picked
\* time option and a window.
C14_MissingSelectionIsInfo ==
    /\ NoStationChosen =>
         /\ pc = "stopped"
         /\ messages = <<Box("info", "Bitte Messpunkt waehlen")>>
         /\ number = Missing
    /\ NoTimeRangeChosen =>
         /\ pc = "stopped"
         /\ messages = <<Box("info", "Bitte Zeitraum waehlen")>>
         /\ filtered = Missing
    /\ \A i \in 1..Len(fetches) :
         fetches[i].table = "measurements" =>
            /\ number # Missing
            /\ map_data # Missing
            /\ Val(map_data).clicked
    /\ chart =>
         /\ number # Missing
         /\ time_option # Missing
         /\ start_ts # Missing
         /\ end_ts # Missing

C14_Witness ==
    /\ NoTimeRangeChosen
    /\ pc = "stopped"
    /\ number = Some(12)
    /\ measurements # Missing
    /\ Len(Val(measurements).rows) = 2

----------------------------------------------------------------------------
(* Properties of the page when data or limits are absent *)

\* the limit block read the limit table and found no entry for the selected
\* parameter
NoLimitEntry ==
    /\ Len(fetches) >= 3
    /\ fetches[3] = Fetch("limits", TRUE)
    /\ MatchingLimitRows = {}

\* the selected parameter is one series of the filtered frame and holds a
\* value that is not null
SeriesHasData ==
    /\ IsSeries(Val(measurements), Val(measurement_choice))
    /\ \E i \in 1..Len(Val(filtered)) :
         ~isna(CellOf(Val(measurements), Val(filtered)[i],
                      Val(measurement_choice)))

NoNumericError ==
    Box("error", "Keine numerischen Messwerte zum Anzeigen gefunden")

\* the loaded table of the station has no numeric column besides the
\* excluded ones
NoNumericColumn ==
    /\ measurements # Missing
    /\ \A i \in 1..Len(Val(measurements).columns) :
         \/ Val(measurements).dtypes[i] # "number"
         \/ Val(measurements).columns[i] \in exclude_cols

\* C16: a table without numeric measurement columns is a terminal error.
\* For such a table the run never gets to the measurement dropdown, the
\* limit lookup or the chart: once the window is filtered it stops, and the
\* box it stops with is the error about the missing numeric columns.
C16_NoNumericColumnsHalts ==
    NoNumericColumn =>
        /\ pc \in {"time_option", "mask", "numeric_candidates", "stopped"}
        /\ measurement_choice = Missing
        /\ measurement_choice_display = Missing
        /\ \A i \in 1..Len(fetches) : fetches[i].table # "limits"
        /\ ~chart
        /\ (pc = "stopped" /\ filtered # Missing) =>
              Last(messages) = NoNumericError

C16_Witness ==
    /\ NoNumericColumn
    /\ pc = "stopped"
    /\ filtered # Missing
    /\ Len(Val(filtered)) = 2
    /\ Last(messages) = NoNumericError

\* C15: a parameter without a limit entry is informational and not fatal.
\* When the limit block finds no entry it shows the info box and the run
\* goes on; after that the run stops or fails only if the parameter's
\* filtered series holds no value that is not null, and otherwise it draws
\* the chart, with no limit, no status line and no Status column.
C15_NoLimitIsInformational ==
    /\ (pc = "notna_check" /\ NoLimitEntry) =>
         Last(messages) = Box("info", "Keine Grenzwerte definiert")
    /\ (pc \in {"stopped", "crashed"} /\ NoLimitEntry) => ~SeriesHasData
    /\ (pc = "infobox" /\ NoLimitEntry) =>
         /\ SeriesHasData
         /\ chart
         /\ limit = Missing
         /\ Status = Missing
         /\ status_line = Missing

C15_Witness ==
    /\ NoLimitEntry
    /\ SeriesHasData
    /\ pc = "infobox"
    /\ chart
    /\ limitFile # <<>>
    /\ limitFile[1].Messwert = Some(pH)
    /\ measurement_choice_display = Some(O2Header)

\* the window was filtered and no row of the station lies in it
EmptyWindow == filtered # Missing /\ Val(filtered) = <<>>

AfterChart == {"infobox", "csv_download", "chart_export", "done"}

\* C17: with no measurement of the station in the chosen window the page
\* does not stop: it shows a short info box and still draws the (empty)
\* chart.  (A table without numeric columns stops with its own error.)
C17_EmptyWindowStillCharts ==
    (EmptyWindow /\ ~NoNumericColumn) =>
        /\ \E j \in 1..Len(messages) :
              messages[j] =
                Box("info", "Keine Messwerte im gewaehlten Zeitraum")
        /\ pc # "stopped"
        /\ pc \in AfterChart => chart

----------------------------------------------------------------------------
(* Properties of the time options *)

\* the rows of the file that belong to the selected station
StationRows ==
    SelectSeq(csvFile.rows, LAMBDA r : r.Nummer = Val(number))

\* `part` holds exactly the rows `wanted` of the file, as loaded, each as
\* often as `wanted` holds it
SameRows(part, wanted) ==
    LET columns == FrameColumns(csvFile)
    IN  /\ Len(part) = Len(wanted)
        /\ \A k \in 1..Len(wanted) :
             LET c == Coerce(wanted[k], columns)
             IN  Count(part, LAMBDA r : r = c)
                   = Count(wanted, LAMBDA r : Coerce(r, columns) = c)

YearOptions(df) == {o \in time_options(df) : "year" \in DOMAIN o}

\* C18: when the time dropdown is built, its year entries are exactly the
\* years in which the selected station has a dated row.  When the window of
\* the picked entry has been filtered: for the year Y the window runs from
\* 1 Jan Y to 31 Dec Y and the filtered rows are exactly the station's rows
\* dated in Y; for Gesamtzeitraum they are all of the station's rows.
C18_YearWindows ==
    /\ pc = "time_option" =>
         /\ \A o \in YearOptions(Val(measurements)) : IsDecimal(o.year)
         /\ {DecimalValue(o.year) : o \in YearOptions(Val(measurements))}
              = {YearOf(StationRows[k].Tag) : k \in 1..Len(StationRows)}
    /\ (pc = "numeric_candidates" /\ "year" \in DOMAIN Val(time_option)) =>
         LET Y == DecimalValue(Val(time_option).year)
         IN  /\ start_ts = Some(Jan1(Y))
             /\ YearOf(Val(end_ts)) = Y
             /\ YearOf(Val(end_ts) + 2) = Y + 1
             /\ SameRows(Val(filtered),
                         SelectSeq(StationRows,
                                   LAMBDA r : YearOf(r.Tag) = Y))
    /\ (pc = "numeric_candidates"
          /\ Val(time_option) = FixedOption("Gesamtzeitraum")) =>
         SameRows(Val(filtered), StationRows)

C18_Witness ==
    /\ pc = "numeric_candidates"
    /\ time_option = Some(YearOption(2024))
    /\ Len(StationRows) = 2
    /\ Len(Val(filtered)) = 1
    /\ Val(filtered)[1].Tag = Val(end_ts)

----------------------------------------------------------------------------
(* Properties of the remark column *)

\* the file column whose header is Bemerkung
BemerkungColumn ==
    CHOOSE j \in 1..Len(csvFile.headers) :
        strip(csvFile.headers[j], Whitespace) = Bemerkung

\* the remark cells of the file rows that were loaded as the given row of
\* the selected station
SourceRemarks(row) ==
    {csvFile.rows[k].cells[BemerkungColumn] :
        k \in {m \in 1..Len(csvFile.rows) :
                 Coerce(csvFile.rows[m], FrameColumns(csvFile)) = row}}

IsBlank(cell) ==
    \/ "empty" \in DOMAIN cell
    \/ "text" \in DOMAIN cell /\ strip(cell.text, Whitespace) = <<>>

\* C20: loading keeps the text of a remark.  For each row of the filtered
\* frame, a remark that is a non-blank text in the file is shown unchanged
\* in Bemerkung_display, and Bemerkung_display shows N/A only for a row
\* whose remark in the file is empty or blank.
C20_RemarkKept ==
    Bemerkung_display # Missing =>
        \A i \in 1..Len(Val(filtered)) :
            \A cell \in SourceRemarks(Val(filtered)[i]) :
                /\ ("text" \in DOMAIN cell /\ ~IsBlank(cell)) =>
                      Val(Bemerkung_display)[i] = TextCell(cell.text)
                /\ Val(Bemerkung_display)[i] = TextCell(NA) => IsBlank(cell)

====
